---- MODULE Spec2Model ----
(***************************************************************************)
(* State-machine model of the instanton drivers:                           *)
(*   cooled_monte_carlo_density   (monte_carlo_ao_cooling_density.py)      *)
(*   streamline_method_iilm       (streamline_iilm.py)                     *)
(*   random_instanton_liquid_model, random_instanton_liquid_model_heating  *)
(*                                                                         *)
(* Number representation.  Positions are integers in units of 1/10, so the *)
(* scan value 1.4 + 0.1 * i_minimum is 14 + i_minimum.  Times are integers *)
(* in units of ip.dtau.  Floating-point results are kept as exact          *)
(* numerators over a stated denominator and rounded toward zero only where *)
(* a value is stored back into a lattice site.                             *)
(***************************************************************************)
EXTENDS Integers, Sequences, FiniteSets, TLC

(***************************************************************************)
(* Bounds of the model (inputs are drawn from these ranges).               *)
(***************************************************************************)
MaxLattice == 3
MaxEquil == 1
MaxMcSweeps == 2
MaxBtwCooling == 2
MaxCoolingSweeps == 2
MaxMinima == 2

(***************************************************************************)
(* Program constants.                                                      *)
(***************************************************************************)
ScanBase == 14
ScanStep == 1

(***************************************************************************)
(* Arithmetic helpers.                                                     *)
(***************************************************************************)
Abs(a) == IF a < 0 THEN -a ELSE a

Trunc(a, b) == IF a >= 0 THEN a \div b ELSE -((-a) \div b)

Zeros(n) == [i \in 1..n |-> 0]

Wrap(i, n) == ((i - 1) % n) + 1

RECURSIVE SumTo(_, _)
SumTo(f, n) == IF n = 0 THEN 0 ELSE f[n] + SumTo(f, n - 1)

(***************************************************************************)
(* input_parameters (ip): the configuration object.                       *)
(***************************************************************************)
\* the exponent of 4/3 * pow(x_potential_minimum, 3) taken as 2
ActionZeroQuadratic(eta) == 4 * eta * eta

\* 4/3 * x_potential_minimum^3 as a numerator over 3000
ActionZero(eta) == 4 * eta * eta * eta

IpInitial ==
    [x_potential_minimum |-> ScanBase, action_0 |-> ActionZero(ScanBase), dtau |-> 1]

(***************************************************************************)
(* utility_monte_carlo: lattice, action, sampler, cooling, detector,       *)
(* aggregator.                                                             *)
(***************************************************************************)
LatticeValues(eta) == {-eta, 0, eta}

Configurations(n, eta) == [1..n -> LatticeValues(eta)]

InitializeLattice(n, i_cold, eta) ==
    IF i_cold THEN {Zeros(n)} ELSE Configurations(n, eta)

LocalTerm(l, v, r, eta) ==
    25 * (r - l) * (r - l) + 4 * (v * v - eta * eta) * (v * v - eta * eta)

ReturnAction(x, eta) ==
    LET n == Len(x)
        term == [i \in 1..n |-> LocalTerm(x[Wrap(i - 1, n)], x[i], x[Wrap(i + 1, n)], eta)]
    IN  SumTo(term, n)

MetropolisOutcomes(x, eta) ==
    {y \in Configurations(Len(x), eta) : \A i \in 1..Len(x) : Abs(y[i] - x[i]) <= eta}

SiteAction(x, i, v, eta) == ReturnAction([x EXCEPT ![i] = v], eta)

CoolSite(x, i, eta) ==
    LET cands == {x[i] - eta, x[i], x[i] + eta} \cap LatticeValues(eta)
        best  == {v \in cands : \A w \in cands : SiteAction(x, i, v, eta) <= SiteAction(x, i, w, eta)}
    IN  IF x[i] \in best THEN x[i]
        ELSE CHOOSE v \in best : \A w \in best : Abs(v - x[i]) <= Abs(w - x[i]) /\ (Abs(v - x[i]) = Abs(w - x[i]) => v <= w)

RECURSIVE CoolFrom(_, _, _)
CoolFrom(x, i, eta) ==
    IF i > Len(x) THEN x
    ELSE CoolFrom([x EXCEPT ![i] = CoolSite(x, i, eta)], i + 1, eta)

ConfigurationCooling(x, eta) == CoolFrom(x, 1, eta)

TimeScale == 4

RootTime(x, i, dtau) ==
    (i - 1) * dtau * TimeScale + (Abs(x[i]) * dtau * TimeScale) \div (Abs(x[i]) + Abs(x[i + 1]))

Indices(n) == [i \in 1..n |-> i]

UpCrossing(x, i) == x[i] < 0 /\ x[i + 1] > 0

DownCrossing(x, i) == x[i] > 0 /\ x[i + 1] < 0

FindInstantons(x, n, dtau) ==
    LET up   == SelectSeq(Indices(n - 1), LAMBDA i : UpCrossing(x, i))
        down == SelectSeq(Indices(n - 1), LAMBDA i : DownCrossing(x, i))
    IN  [n_instantons      |-> Len(up),
         n_anti_instantons |-> Len(down),
         pos_roots         |-> [k \in 1..Len(up) |-> RootTime(x, up[k], dtau)],
         neg_roots         |-> [k \in 1..Len(down) |-> RootTime(x, down[k], dtau)]]

\* ReturnAction yields the action as a numerator over ActionDen; the square of
\* an action is kept in the same unit.
ActionDen == 40000

ActionRoot == 200

ActionSquared(a) == (a \div ActionRoot) * (a \div ActionRoot)

StatAvVarFails(n_samples) == n_samples = 0

\* the mean sums[b] / n_samples of some bin is zero
ZeroMean(sums, n_samples) == \E b \in 1..Len(sums) : sums[b] = 0

(***************************************************************************)
(* utility_rilm: the sum ansatz.  Times that need not lie on the grid      *)
(* (centres, roots) are counted in ticks of ip.dtau / TimeScale.           *)
(***************************************************************************)
Clamp(v, lo, hi) == IF v < lo THEN lo ELSE IF v > hi THEN hi ELSE v

TauArray(n, dtau) == [i \in 1..n |-> (i - 1) * dtau]

\* twice the kink profile: saturates one lattice spacing away from the centre
TanhTwice(ticks) == Clamp(Trunc(2 * ticks, TimeScale), -2, 2)

Charge(k) == IF k % 2 = 1 THEN 1 ELSE -1

AnsatzSite(centers, t, eta) ==
    LET contrib == [k \in 1..Len(centers) |-> Charge(k) * TanhTwice(t * TimeScale - centers[k])]
    IN  Trunc(eta * SumTo(contrib, Len(centers)), 2) - eta

\* the grid values followed by the periodic closing point
AnsatzInstantonConf(centers, tau_array, eta) ==
    LET grid == [i \in 1..Len(tau_array) |-> AnsatzSite(centers, tau_array[i], eta)]
    IN  Append(grid, grid[1])

(***************************************************************************)
(* State.                                                                  *)
(***************************************************************************)
VARIABLES
    driver,                   \* which driver this run executes
    pc,                       \* position inside the driver
    ret,                      \* value returned by the driver ("none" before it returns)
    ip,                       \* the configuration object input_parameters
    output_dirs,              \* directories handed to utility_custom.output_control
    files,                    \* names of the files written with np.savetxt
    printed,                  \* kinds of messages printed so far
    n_lattice, n_equil, n_mc_sweeps, i_cold, n_sweeps_btw_cooling, n_cooling_sweeps, n_minima,
    potential_minima, i_minimum, i_equil, i_mc, i_cooling, n_cooling,
    x_config, x_cold_config,
    n_total_instantons_sum, n2_total_instantons_sum, action_cooling, action2_cooling,
    ip_writes,                \* history: assignments to a field of ip in this run
    n_initialize,             \* history: calls of mc.initialize_lattice in this run
    n_metropolis,             \* history: Metropolis sweeps of the current scan point
    n_cool_calls,             \* history: cooling sweeps of the current scan point
    bin_samples,              \* history: samples added to each accumulator bin
    agg_calls,                \* history: sample counts handed to mc.stat_av_var
    odd_total_added,          \* history: an odd crossing total went into the sums
    scan_sums,                \* history: per bin, the samples of the current scan point summed
    zero_divisor,             \* history: np.divide of lines 118-119 met n_total = 0
    r_initial_sep, stream_time_step, n_lattice_half, n_streamline,
    i_s, tau_centers_ia, lambda_derivative, action_density, ansatz_action,
    tau_writer, act_writer,   \* the two output files of the streamline driver
    ansatz_grid,              \* history: the ansatz on the time grid, as first built
    pair_steps,               \* history: iterations whose roots were one of each sign
    n_points, n_meas, n_heating,
    n_ia, hist_writer,
    n_ia_passed,              \* history: the n_ia handed to each sampling step
    cor_samples,              \* history: measurements added to x_cor_sums
    n_dim, n_hamiltonian, energy_eigenvalues, i_removal, indices_removed,
    removed_file,             \* the eigenvalues written to removed_energy_values.txt
    eigh_result,              \* history: the eigenvalues as LA.eigh returned them
    stop_exec, stop_exec_plot,
    call,                     \* the last answer of graphical_ui
    invoked,                  \* history: the routines main has called, in order
    n_inputs                  \* history: answers read from graphical_ui

cooledParams ==
    <<n_lattice, n_equil, n_mc_sweeps, i_cold, n_sweeps_btw_cooling, n_cooling_sweeps, n_minima>>

cooledLoop == <<potential_minima, i_minimum, i_equil, i_mc, i_cooling, n_cooling>>

cooledLattice == <<x_config, x_cold_config>>

cooledSums ==
    <<n_total_instantons_sum, n2_total_instantons_sum, action_cooling, action2_cooling>>

cooledHistory ==
    <<n_initialize, n_metropolis, n_cool_calls, bin_samples, agg_calls, odd_total_added,
      scan_sums, zero_divisor>>

cooledVars == <<cooledParams, cooledLoop, cooledLattice, cooledSums, cooledHistory>>

cooledOnly == <<cooledParams, cooledLoop, x_cold_config, cooledSums, cooledHistory>>

streamParams == <<r_initial_sep, stream_time_step, n_lattice_half, n_streamline>>

streamOnly ==
    <<streamParams, i_s, lambda_derivative, action_density, ansatz_action, tau_writer,
      act_writer, ansatz_grid, pair_steps>>

rilmParams == <<n_points, n_meas, n_heating>>

rilmOnly == <<rilmParams, n_ia, hist_writer, n_ia_passed, cor_samples>>

diagOnly ==
    <<n_dim, n_hamiltonian, energy_eigenvalues, i_removal, indices_removed, removed_file,
      eigh_result>>

menuOnly == <<stop_exec, stop_exec_plot, call, invoked, n_inputs>>

vars ==
    <<driver, pc, ret, ip, output_dirs, files, printed, ip_writes, cooledVars,
      tau_centers_ia, streamOnly, rilmOnly, diagOnly, menuOnly>>

(***************************************************************************)
(* cooled_monte_carlo_density                                              *)
(***************************************************************************)
CooledOutputPath == "output_cooled_monte_carlo"

\* the comparison of line 20 turned round
TooFewSweepsSwapped(mc_sweeps, equil) == mc_sweeps > equil

TooFewSweeps(mc_sweeps, equil) == mc_sweeps < equil

ScanValue(i) == ScanBase + ScanStep * i

CoolingDue(i, btw) == (i % btw) = 0

\* every sample lands in the first bin
AddSampleFirstBin(acc, i, v) == [acc EXCEPT ![1] = @ + v]

AddSample(acc, i, v) == [acc EXCEPT ![i] = @ + v]

\* lines 47-51 leaving an accumulator of the right length as the last scan point left it
FreshAccumulatorKept(old, n) == IF Len(old) = n THEN old ELSE Zeros(n)

\* lines 47-51: np.zeros((n_cooling_sweeps)) bound to the accumulator's name
FreshAccumulator(old, n) == Zeros(n)

\* line 73 going on from the array the previous cooling event left
CoolingStartFromPrevious(chain, previous_cold) ==
    IF Len(previous_cold) = Len(chain) THEN previous_cold ELSE chain

\* line 73: x_cold_config = np.copy(x_config)
CoolingStart(chain, previous_cold) == chain

NoSamples == [total |-> 0, total2 |-> 0, action |-> 0, action2 |-> 0]

CooledIdle ==
    /\ n_lattice = 0 /\ n_equil = 0 /\ n_mc_sweeps = 0 /\ i_cold = FALSE
    /\ n_sweeps_btw_cooling = 0 /\ n_cooling_sweeps = 0 /\ n_minima = 0

ClosedFile == [open |-> FALSE, lines |-> <<>>]

StreamIdle ==
    /\ r_initial_sep = 0 /\ stream_time_step = [num |-> 0, den |-> 1]
    /\ n_lattice_half = 0 /\ n_streamline = 0
    /\ i_s = 0 /\ lambda_derivative = <<>> /\ action_density = <<>> /\ ansatz_action = 0
    /\ tau_writer = ClosedFile /\ act_writer = ClosedFile /\ ansatz_grid = <<>>
    /\ pair_steps = 0

RilmIdle ==
    /\ n_points = 0 /\ n_meas = 0 /\ n_heating = 0
    /\ n_ia = 0 /\ hist_writer = ClosedFile /\ n_ia_passed = <<>> /\ cor_samples = 0

DiagIdle ==
    /\ n_dim = 0 /\ n_hamiltonian = 0 /\ energy_eigenvalues = <<>> /\ i_removal = 0
    /\ indices_removed = <<>> /\ removed_file = <<>> /\ eigh_result = <<>>

MenuIdle ==
    /\ stop_exec = 0 /\ stop_exec_plot = 0 /\ call = "" /\ invoked = <<>> /\ n_inputs = 0

CooledLocalsInit ==
    /\ potential_minima = <<>> /\ i_minimum = 0 /\ i_equil = 0 /\ i_mc = 0
    /\ i_cooling = 0 /\ n_cooling = 0
    /\ x_config = <<>> /\ x_cold_config = <<>>
    /\ n_total_instantons_sum = <<>> /\ n2_total_instantons_sum = <<>>
    /\ action_cooling = <<>> /\ action2_cooling = <<>>
    /\ n_initialize = 0 /\ n_metropolis = 0 /\ n_cool_calls = 0
    /\ bin_samples = <<>> /\ agg_calls = <<>> /\ odd_total_added = FALSE
    /\ scan_sums = <<>> /\ zero_divisor = FALSE

CommonInit ==
    /\ ret = "none"
    /\ ip = IpInitial
    /\ output_dirs = {}
    /\ files = {}
    /\ printed = {}
    /\ ip_writes = 0

InitCooled ==
    /\ driver = "cooled"
    /\ pc = "entry"
    /\ CommonInit
    /\ n_lattice = MaxLattice
    /\ n_equil \in 0..MaxEquil
    /\ n_mc_sweeps \in 0..MaxMcSweeps
    /\ i_cold \in BOOLEAN
    /\ n_sweeps_btw_cooling \in 0..MaxBtwCooling
    /\ n_cooling_sweeps \in 0..MaxCoolingSweeps
    /\ n_minima \in 0..MaxMinima
    /\ CooledLocalsInit
    /\ tau_centers_ia = <<>>
    /\ StreamIdle
    /\ RilmIdle
    /\ DiagIdle
    /\ MenuIdle

\* lines 20-28: the parameter check, the output directory, potential_minima
CooledEntry ==
    /\ UNCHANGED <<tau_centers_ia, streamOnly, rilmOnly, diagOnly, menuOnly>>
    /\ driver = "cooled" /\ pc = "entry"
    /\ IF TooFewSweeps(n_mc_sweeps, n_equil)
       THEN /\ printed' = printed \cup {"too few Monte Carlo sweeps"}
            /\ ret' = "1"
            /\ pc' = "done"
            /\ UNCHANGED <<output_dirs, potential_minima>>
       ELSE /\ output_dirs' = output_dirs \cup {CooledOutputPath}
            /\ potential_minima' = Zeros(n_minima)
            /\ pc' = "scan"
            /\ UNCHANGED <<printed, ret>>
    /\ UNCHANGED <<driver, ip, files, ip_writes, cooledParams, i_minimum, i_equil, i_mc,
                   i_cooling, n_cooling, cooledLattice, cooledSums, cooledHistory>>

\* lines 30-40: head of the scan loop; lines 141-150 when the loop is over
CooledScan ==
    /\ UNCHANGED <<tau_centers_ia, streamOnly, rilmOnly, diagOnly, menuOnly>>
    /\ driver = "cooled" /\ pc = "scan"
    /\ IF i_minimum < n_minima
       THEN /\ printed' = printed \cup {"New monte carlo for eta"}
            /\ n_cooling' = 0
            /\ ip' = [ip EXCEPT !.x_potential_minimum = ScanValue(i_minimum)]
            /\ ip_writes' = ip_writes + 1
            /\ potential_minima' = [potential_minima EXCEPT ![i_minimum + 1] = ScanValue(i_minimum)]
            /\ scan_sums' = [b \in 1..n_cooling_sweeps |-> NoSamples]
            /\ pc' = "init_lattice"
            /\ UNCHANGED <<ret, files>>
       ELSE /\ files' = files \cup {<<"n_cooling", 0>>, <<"potential_minima", 0>>}
            /\ ret' = "0"
            /\ pc' = "done"
            /\ UNCHANGED <<printed, n_cooling, ip, ip_writes, potential_minima, scan_sums>>
    /\ UNCHANGED <<driver, output_dirs, cooledParams, i_minimum, i_equil, i_mc, i_cooling,
                   cooledLattice, cooledSums, n_initialize, n_metropolis, n_cool_calls,
                   bin_samples, agg_calls, odd_total_added, zero_divisor>>

\* lines 43-51 with ip.x_potential_minimum assigned again after the lattice is built
CooledInitLatticeRewritesIp ==
    /\ UNCHANGED <<tau_centers_ia, streamOnly, rilmOnly, diagOnly, menuOnly>>
    /\ driver = "cooled" /\ pc = "init_lattice"
    /\ x_config' \in InitializeLattice(n_lattice, i_cold, ip.x_potential_minimum)
    /\ ip' = [ip EXCEPT !.x_potential_minimum = ScanValue(i_minimum)]
    /\ ip_writes' = ip_writes + 1
    /\ n_initialize' = n_initialize + 1
    /\ n_total_instantons_sum' = FreshAccumulator(n_total_instantons_sum, n_cooling_sweeps)
    /\ n2_total_instantons_sum' = FreshAccumulator(n2_total_instantons_sum, n_cooling_sweeps)
    /\ action_cooling' = FreshAccumulator(action_cooling, n_cooling_sweeps)
    /\ action2_cooling' = FreshAccumulator(action2_cooling, n_cooling_sweeps)
    /\ bin_samples' = Zeros(n_cooling_sweeps)
    /\ n_metropolis' = 0
    /\ n_cool_calls' = 0
    /\ i_equil' = 0
    /\ pc' = "equil"
    /\ UNCHANGED <<driver, ret, output_dirs, files, printed, cooledParams,
                   potential_minima, i_minimum, i_mc, i_cooling, n_cooling, x_cold_config,
                   agg_calls, odd_total_added, scan_sums, zero_divisor>>

\* lines 43-51: a fresh lattice and zeroed accumulators
CooledInitLattice ==
    /\ UNCHANGED <<tau_centers_ia, streamOnly, rilmOnly, diagOnly, menuOnly>>
    /\ driver = "cooled" /\ pc = "init_lattice"
    /\ x_config' \in InitializeLattice(n_lattice, i_cold, ip.x_potential_minimum)
    /\ n_initialize' = n_initialize + 1
    /\ n_total_instantons_sum' = FreshAccumulator(n_total_instantons_sum, n_cooling_sweeps)
    /\ n2_total_instantons_sum' = FreshAccumulator(n2_total_instantons_sum, n_cooling_sweeps)
    /\ action_cooling' = FreshAccumulator(action_cooling, n_cooling_sweeps)
    /\ action2_cooling' = FreshAccumulator(action2_cooling, n_cooling_sweeps)
    /\ bin_samples' = Zeros(n_cooling_sweeps)
    /\ n_metropolis' = 0
    /\ n_cool_calls' = 0
    /\ i_equil' = 0
    /\ pc' = "equil"
    /\ UNCHANGED <<driver, ret, ip, output_dirs, files, printed, ip_writes, cooledParams,
                   potential_minima, i_minimum, i_mc, i_cooling, n_cooling, x_cold_config,
                   agg_calls, odd_total_added, scan_sums, zero_divisor>>

\* lines 58-59: equilibration sweeps
CooledEquil ==
    /\ UNCHANGED <<tau_centers_ia, streamOnly, rilmOnly, diagOnly, menuOnly>>
    /\ driver = "cooled" /\ pc = "equil"
    /\ IF i_equil < n_equil
       THEN /\ x_config' \in MetropolisOutcomes(x_config, ip.x_potential_minimum)
            /\ n_metropolis' = n_metropolis + 1
            /\ i_equil' = i_equil + 1
            /\ UNCHANGED <<pc, i_mc>>
       ELSE /\ i_mc' = 0
            /\ pc' = "mc"
            /\ UNCHANGED <<x_config, n_metropolis, i_equil>>
    /\ UNCHANGED <<driver, ret, ip, output_dirs, files, printed, ip_writes, cooledParams,
                   potential_minima, i_minimum, i_cooling, n_cooling, x_cold_config,
                   cooledSums, n_initialize, n_cool_calls, bin_samples, agg_calls,
                   odd_total_added, scan_sums, zero_divisor>>

\* lines 63-75: one measuring sweep and, when due, the start of a cooling event
CooledMc ==
    /\ UNCHANGED <<tau_centers_ia, streamOnly, rilmOnly, diagOnly, menuOnly>>
    /\ driver = "cooled" /\ pc = "mc"
    /\ IF i_mc < n_mc_sweeps - n_equil
       THEN /\ x_config' \in MetropolisOutcomes(x_config, ip.x_potential_minimum)
            /\ n_metropolis' = n_metropolis + 1
            /\ IF n_sweeps_btw_cooling = 0
               THEN /\ pc' = "raised"
                    /\ ret' = "ZeroDivisionError"
                    /\ UNCHANGED <<printed, x_cold_config, n_cooling, i_cooling, i_mc>>
               ELSE IF CoolingDue(i_mc, n_sweeps_btw_cooling)
               THEN /\ printed' = printed \cup {"cooling"}
                    /\ x_cold_config' = CoolingStart(x_config', x_cold_config)
                    /\ n_cooling' = n_cooling + 1
                    /\ i_cooling' = 0
                    /\ pc' = "cooling"
                    /\ UNCHANGED <<ret, i_mc>>
               ELSE /\ i_mc' = i_mc + 1
                    /\ UNCHANGED <<pc, ret, printed, x_cold_config, n_cooling, i_cooling>>
       ELSE /\ pc' = "aggregate"
            /\ UNCHANGED <<ret, printed, x_config, x_cold_config, n_metropolis, n_cooling,
                           i_cooling, i_mc>>
    /\ UNCHANGED <<driver, ip, output_dirs, files, ip_writes, cooledParams, potential_minima,
                   i_minimum, i_equil, cooledSums, n_initialize, n_cool_calls, bin_samples,
                   agg_calls, odd_total_added, scan_sums, zero_divisor>>

\* lines 77-101: one cooling sweep with its measurements
CooledCoolingSweep ==
    /\ UNCHANGED <<tau_centers_ia, streamOnly, rilmOnly, diagOnly, menuOnly>>
    /\ driver = "cooled" /\ pc = "cooling"
    /\ IF i_cooling < n_cooling_sweeps
       THEN LET cooled == ConfigurationCooling(x_cold_config, ip.x_potential_minimum)
                found  == FindInstantons(cooled, n_lattice, ip.dtau)
                total  == found.n_instantons + found.n_anti_instantons
                action_temp == ReturnAction(cooled, ip.x_potential_minimum)
                bin    == i_cooling + 1
            IN  /\ x_cold_config' = cooled
                /\ n_cool_calls' = n_cool_calls + 1
                /\ n_total_instantons_sum' = AddSample(n_total_instantons_sum, bin, total)
                /\ n2_total_instantons_sum' = AddSample(n2_total_instantons_sum, bin, total * total)
                /\ action_cooling' = AddSample(action_cooling, bin, action_temp)
                /\ action2_cooling' = AddSample(action2_cooling, bin, ActionSquared(action_temp))
                /\ bin_samples' = AddSample(bin_samples, bin, 1)
                /\ odd_total_added' = (odd_total_added \/ total % 2 = 1)
                /\ scan_sums' = [scan_sums EXCEPT ![bin] =
                                   [total   |-> @.total + total,
                                    total2  |-> @.total2 + total * total,
                                    action  |-> @.action + action_temp,
                                    action2 |-> @.action2 + ActionSquared(action_temp)]]
                /\ i_cooling' = i_cooling + 1
                /\ UNCHANGED <<pc, i_mc>>
       ELSE /\ i_mc' = i_mc + 1
            /\ pc' = "mc"
            /\ UNCHANGED <<x_cold_config, n_cool_calls, cooledSums, bin_samples,
                           odd_total_added, i_cooling, scan_sums>>
    /\ UNCHANGED <<driver, ret, ip, output_dirs, files, printed, ip_writes, cooledParams,
                   potential_minima, i_minimum, i_equil, n_cooling, x_config, n_initialize,
                   n_metropolis, agg_calls, zero_divisor>>

\* lines 106-138: averages, errors and the files of this scan point
CooledAggregate ==
    /\ UNCHANGED <<tau_centers_ia, streamOnly, rilmOnly, diagOnly, menuOnly>>
    /\ driver = "cooled" /\ pc = "aggregate"
    /\ IF StatAvVarFails(n_cooling)
       THEN /\ agg_calls' = Append(agg_calls, n_cooling)
            /\ ret' = "ZeroDivisionError"
            /\ pc' = "raised"
            /\ UNCHANGED <<files, i_minimum, zero_divisor>>
       ELSE /\ agg_calls' = agg_calls \o <<n_cooling, n_cooling>>
            /\ zero_divisor' = (zero_divisor \/ ZeroMean(n_total_instantons_sum, n_cooling))
            /\ files' = files \cup {<<"n_total", i_minimum + 1>>,
                                    <<"n_instantons", i_minimum + 1>>,
                                    <<"n_instantons_err", i_minimum + 1>>,
                                    <<"action", i_minimum + 1>>,
                                    <<"action_err", i_minimum + 1>>}
            /\ i_minimum' = i_minimum + 1
            /\ pc' = "scan"
            /\ UNCHANGED ret
    /\ UNCHANGED <<driver, ip, output_dirs, printed, ip_writes, cooledParams, potential_minima,
                   i_equil, i_mc, i_cooling, n_cooling, cooledLattice, cooledSums,
                   n_initialize, n_metropolis, n_cool_calls, bin_samples, odd_total_added,
                   scan_sums>>

NextCooled ==
    \/ CooledEntry
    \/ CooledScan
    \/ CooledInitLattice
    \/ CooledEquil
    \/ CooledMc
    \/ CooledCoolingSweep
    \/ CooledAggregate

SpecCooled == InitCooled /\ [][NextCooled]_vars

(***************************************************************************)
(* streamline_method_iilm                                                  *)
(***************************************************************************)
MaxLatticeHalf == 3
MaxSeparation == 3
ScenarioIterations == 1000
MaxStreamline == 60045

BurnIn == 60000
RecordStride == 20

StreamOutputPath == "output_iilm/streamline"

\* the scenario run (step 0.001, 1000 iterations) and a run past the burn-in
StreamRuns ==
    {[step |-> [num |-> 1, den |-> 1000], n |-> ScenarioIterations],
     [step |-> [num |-> 1, den |-> 20], n |-> MaxStreamline]}

\* separations whose centres fall between two grid points
OddSeparations == {r \in 0..MaxSeparation : r % 2 = 1}

\* lines 68-69
StreamCenters(n_half, r, dtau) ==
    <<n_half * dtau * TimeScale - Trunc(r * TimeScale, 2),
      n_half * dtau * TimeScale + Trunc(r * TimeScale, 2)>>

\* lines 77-80 with the second insert left out
PadGhostsSingleFront(x) ==
    LET a1 == <<x[1]>> \o x
        a3 == [a1 EXCEPT ![Len(a1)] = a1[Len(a1) - 1]]
    IN  Append(a3, a3[Len(a3)])

\* lines 77-80: two ghost points in front, two behind
PadGhosts(x) ==
    LET a1 == <<x[1]>> \o x
        a2 == <<a1[1]>> \o a1
        a3 == [a2 EXCEPT ![Len(a2)] = a2[Len(a2) - 1]]
    IN  Append(a3, a3[Len(a3)])

\* Python positions 2 .. 2 * n_lattice_half + 1 of x_config, as sequence indices
InteriorSites(n_half) == 3..(2 * n_half + 2)

\* lines 100-104: every read x_config[i_pos - 2 .. i_pos + 2] is inside the array
StencilInside(x, n_half) == \A i \in InteriorSites(n_half) : i - 2 >= 1 /\ i + 2 <= Len(x)

Stencil(x, i) == -x[i + 2] + 16 * x[i + 1] - 30 * x[i] + 16 * x[i - 1] - x[i - 2]

\* lines 102-114 at one site, as a numerator over LambdaDen
LambdaDen == 2400

LambdaSite(x, i, eta) == -100 * Stencil(x, i) + 96 * x[i] * (x[i] * x[i] - eta * eta)

LambdaDerivative(x, n_half, eta) ==
    [k \in 1..(2 * n_half) |-> LambdaSite(x, k + 2, eta)]

\* lines 116-117 with the sign of the step turned round
UpdateSitesAscent(x, lambda, n_half, step) ==
    [i \in 1..Len(x) |->
        IF i \in InteriorSites(n_half)
        THEN x[i] + Trunc(lambda[i - 2] * step.num, LambdaDen * step.den)
        ELSE x[i]]

\* lines 116-117
UpdateSites(x, lambda, n_half, step) ==
    [i \in 1..Len(x) |->
        IF i \in InteriorSites(n_half)
        THEN x[i] + Trunc(-lambda[i - 2] * step.num, LambdaDen * step.den)
        ELSE x[i]]

\* lines 119-122
ClampGhosts(x) ==
    LET n  == Len(x)
        b1 == [x EXCEPT ![1] = x[3]]
        b2 == [b1 EXCEPT ![2] = b1[3]]
        b3 == [b2 EXCEPT ![n] = b2[n - 2]]
    IN  [b3 EXCEPT ![n - 1] = b3[n - 2]]

\* lines 124-127
ActionDensity(x, n_half, eta) ==
    [k \in 1..(2 * n_half) |-> LocalTerm(x[k + 1], x[k + 2], x[k + 3], eta)]

\* line 135 without the burn-in test
RecordingStepNoBurnIn(i) == i % RecordStride = 0

\* line 135
RecordingStep(i) == i > BurnIn /\ i % RecordStride = 0

\* line 136
OnePair(found) == Len(found.pos_roots) = 1 /\ Len(found.neg_roots) = 1

\* lines 135-136 testing the stride only, whatever the Detector returned
RecordDueOnStride(i, found) == i % RecordStride = 0

\* lines 135-136: the two tests a record has to pass
RecordDue(i, found) == RecordingStep(i) /\ OnePair(found)

\* line 140 reads pos_root[0] and neg_root[0]
RootsIndexable(found) == Len(found.pos_roots) >= 1 /\ Len(found.neg_roots) >= 1

\* the Detector's counts are one instanton and one anti-instanton
ExactlyOneEach(found) == found.n_instantons = 1 /\ found.n_anti_instantons = 1

\* line 140, in ticks
Separation(found) == Abs(found.pos_roots[1] - found.neg_roots[1])

\* lines 138 and 144, in hundredths: the action is over ActionDen, ansatz_action over 3000
InteractionRatio(current_action, ansatz) ==
    Trunc(100 * (3 * current_action - 80 * ansatz), 40 * ansatz)

WriteLine(f, line) == [f EXCEPT !.lines = Append(@, line)]

InitStream ==
    /\ driver = "stream"
    /\ pc = "entry"
    /\ CommonInit
    /\ CooledIdle
    /\ CooledLocalsInit
    /\ RilmIdle
    /\ DiagIdle
    /\ MenuIdle
    /\ r_initial_sep \in OddSeparations
    /\ \E run \in StreamRuns : stream_time_step = run.step /\ n_streamline = run.n
    /\ n_lattice_half = MaxLatticeHalf
    /\ i_s = 0
    /\ tau_centers_ia = <<>>
    /\ lambda_derivative = <<>> /\ action_density = <<>> /\ ansatz_action = 0
    /\ tau_writer = ClosedFile /\ act_writer = ClosedFile /\ ansatz_grid = <<>>
    /\ pair_steps = 0

\* lines 65-95
StreamEntry ==
    /\ driver = "stream" /\ pc = "entry"
    /\ output_dirs' = output_dirs \cup {StreamOutputPath}
    /\ tau_centers_ia' = StreamCenters(n_lattice_half, r_initial_sep, ip.dtau)
    /\ LET ansatz == AnsatzInstantonConf(tau_centers_ia', TauArray(2 * n_lattice_half, ip.dtau),
                                         ip.x_potential_minimum)
       IN  /\ x_config' = PadGhosts(ansatz)
           /\ ansatz_grid' = SubSeq(ansatz, 1, 2 * n_lattice_half)
    /\ action_density' = Zeros(2 * n_lattice_half)
    /\ lambda_derivative' = Zeros(2 * n_lattice_half)
    /\ ansatz_action' = ActionZero(ip.x_potential_minimum)
    /\ tau_writer' = [open |-> TRUE, lines |-> <<>>]
    /\ act_writer' = [open |-> TRUE, lines |-> <<>>]
    /\ printed' = printed \cup {"dtau"}
    /\ i_s' = 0
    /\ pc' = "loop"
    /\ UNCHANGED <<driver, ret, ip, files, ip_writes, cooledOnly, streamParams, pair_steps,
                   rilmOnly, diagOnly, menuOnly>>

\* lines 97-144: one streamline iteration; lines 166-167 when the loop is over
StreamStep ==
    /\ driver = "stream" /\ pc = "loop"
    /\ IF i_s < n_streamline
       THEN IF ~StencilInside(x_config, n_lattice_half)
            THEN /\ pc' = "raised"
                 /\ ret' = "IndexError"
                 /\ UNCHANGED <<x_config, lambda_derivative, action_density, tau_writer,
                                act_writer, i_s, pair_steps>>
            ELSE LET lambda == LambdaDerivative(x_config, n_lattice_half, ip.x_potential_minimum)
                     moved  == UpdateSites(x_config, lambda, n_lattice_half, stream_time_step)
                     x_new  == ClampGhosts(moved)
                     current_action ==
                         ReturnAction(SubSeq(x_new, 3, Len(x_new) - 1), ip.x_potential_minimum)
                     found  == FindInstantons(SubSeq(x_new, 3, Len(x_new) - 2),
                                              Len(x_new) - 4, ip.dtau)
                 IN  /\ lambda_derivative' = lambda
                     /\ x_config' = x_new
                     /\ action_density' = ActionDensity(x_new, n_lattice_half, ip.x_potential_minimum)
                     /\ pair_steps' = pair_steps + (IF ExactlyOneEach(found) THEN 1 ELSE 0)
                     /\ IF RecordDue(i_s, found)
                        THEN IF RootsIndexable(found)
                             THEN /\ tau_writer' = WriteLine(tau_writer, Separation(found))
                                  /\ act_writer' = WriteLine(act_writer,
                                                             InteractionRatio(current_action, ansatz_action))
                                  /\ i_s' = i_s + 1
                                  /\ UNCHANGED <<pc, ret>>
                             ELSE /\ pc' = "raised"
                                  /\ ret' = "IndexError"
                                  /\ UNCHANGED <<tau_writer, act_writer, i_s>>
                        ELSE /\ i_s' = i_s + 1
                             /\ UNCHANGED <<tau_writer, act_writer, pc, ret>>
       ELSE /\ tau_writer' = [tau_writer EXCEPT !.open = FALSE]
            /\ act_writer' = [act_writer EXCEPT !.open = FALSE]
            /\ ret' = "None"
            /\ pc' = "done"
            /\ UNCHANGED <<x_config, lambda_derivative, action_density, i_s, pair_steps>>
    /\ UNCHANGED <<driver, ip, output_dirs, files, printed, ip_writes, cooledOnly,
                   tau_centers_ia, streamParams, ansatz_action, ansatz_grid, rilmOnly, diagOnly, menuOnly>>

NextStream ==
    \/ StreamEntry
    \/ StreamStep

SpecStream == InitStream /\ [][NextStream]_vars

(***************************************************************************)
(* random_instanton_liquid_model and random_instanton_liquid_model_heating *)
(***************************************************************************)
MaxRilmLattice == 7
MaxRilmSweeps == 2

RilmOutputPath == "output_rilm"

RilmHeatingOutputPath == "output_rilm_heating"

\* 8 * x_potential_minimum^(5/2) * (2/pi)^(1/2), in hundredths
PrefactorCenti(eta) ==
    CASE eta = 14 -> 1480
      [] eta = 15 -> 1759
      [] eta = 16 -> 2067
      [] eta = 17 -> 2405
      [] OTHER    -> 2775

\* exp(-s0 - 71 / (72 * s0)) in units of 10^-5, s0 given as ActionZero(eta)
ExpFactor(s0) ==
    CASE s0 = ActionZero(14) -> 1968
      [] s0 = ActionZero(15) -> 892
      [] s0 = ActionZero(16) -> 355
      [] s0 = ActionZero(17) -> 123
      [] OTHER               -> 37

\* int(np.rint(loop_2 * n_lattice * ip.dtau))
InstantonCount(eta, s0, lattice, dtau) ==
    (PrefactorCenti(eta) * ExpFactor(s0) * lattice * dtau + 5000000) \div 10000000

\* the configuration object as an earlier scan of cooled_monte_carlo_density leaves it
IpReachable ==
    {IpInitial} \cup {[IpInitial EXCEPT !.x_potential_minimum = ScanValue(k)] : k \in 0..(MaxMinima - 1)}

\* rilm.rilm_monte_carlo_step: n_ia distinct centres on the grid, in any order
CenterChoices(n, lattice, dtau) ==
    {c \in [1..n -> {t * TimeScale : t \in 0..(lattice * dtau - 1)}] :
        \A i, j \in 1..n : i # j => c[i] # c[j]}

Min(a, b) == IF a <= b THEN a ELSE b

\* lines 49-58: the k-th separation written, for the centre at Python index 2 * (k - 1)
HistogramLine(centers, k, period) ==
    LET zero_m == IF k = 1 THEN centers[Len(centers)] - period ELSE centers[2 * k - 2]
    IN  Min(centers[2 * k] - centers[2 * k - 1], centers[2 * k - 1] - zero_m)

HistogramLines(centers, period) ==
    [k \in 1..(Len(centers) \div 2) |-> HistogramLine(centers, k, period)]

\* line 55 reads tau_centers_ia[i + 1] one past the end when the size is odd
HistogramRaises(centers) == Len(centers) % 2 = 1

InitRilm ==
    /\ driver \in {"rilm", "rilm_heating"}
    /\ pc = "entry"
    /\ ret = "none" /\ output_dirs = {} /\ files = {} /\ printed = {} /\ ip_writes = 0
    /\ ip \in IpReachable
    /\ n_lattice \in 1..MaxRilmLattice
    /\ n_mc_sweeps \in 0..MaxRilmSweeps
    /\ n_equil = 0 /\ i_cold = FALSE /\ n_sweeps_btw_cooling = 0
    /\ n_cooling_sweeps = 0 /\ n_minima = 0
    /\ CooledLocalsInit
    /\ StreamIdle
    /\ DiagIdle
    /\ MenuIdle
    /\ tau_centers_ia = <<>>
    /\ n_points = 1 /\ n_meas = 1
    /\ n_heating = (IF driver = "rilm_heating" THEN 1 ELSE 0)
    /\ n_ia = 0 /\ hist_writer = ClosedFile /\ n_ia_passed = <<>> /\ cor_samples = 0

rilmFrame ==
    <<ip, ip_writes, cooledParams, potential_minima, i_minimum, i_equil, i_cooling, n_cooling,
      cooledLattice, cooledSums, cooledHistory, streamOnly, rilmParams, diagOnly, menuOnly>>

\* random_instanton_monte_carlo.py lines 20-38
RilmEntry ==
    /\ driver = "rilm" /\ pc = "entry"
    /\ output_dirs' = output_dirs \cup {RilmOutputPath}
    /\ n_ia' = InstantonCount(ip.x_potential_minimum, ip.action_0, n_lattice, ip.dtau)
    /\ hist_writer' = [open |-> TRUE, lines |-> <<>>]
    /\ printed' = printed \cup {"n_ia"}
    /\ i_mc' = 0
    /\ pc' = "loop"
    /\ UNCHANGED <<driver, ret, files, tau_centers_ia, n_ia_passed, cor_samples, rilmFrame>>

\* random_instanton_monte_carlo.py lines 40-67
RilmSweep ==
    /\ driver = "rilm" /\ pc = "loop"
    /\ IF i_mc < n_mc_sweeps
       THEN /\ printed' = printed \cup {"sweep"}
            /\ tau_centers_ia' \in CenterChoices(n_ia, n_lattice, ip.dtau)
            /\ n_ia_passed' = Append(n_ia_passed, n_ia)
            /\ cor_samples' = cor_samples + n_meas
            /\ hist_writer' = [hist_writer EXCEPT
                                 !.lines = @ \o HistogramLines(tau_centers_ia', n_lattice * ip.dtau * TimeScale)]
            /\ IF HistogramRaises(tau_centers_ia')
               THEN /\ ret' = "IndexError"
                    /\ pc' = "raised"
                    /\ UNCHANGED i_mc
               ELSE /\ i_mc' = i_mc + 1
                    /\ UNCHANGED <<ret, pc>>
            /\ UNCHANGED files
       ELSE /\ hist_writer' = [hist_writer EXCEPT !.open = FALSE]
            /\ files' = files \cup {<<RilmOutputPath, n_mc_sweeps * n_meas>>}
            /\ ret' = "None"
            /\ pc' = "done"
            /\ UNCHANGED <<printed, tau_centers_ia, n_ia_passed, cor_samples, i_mc>>
    /\ UNCHANGED <<driver, output_dirs, n_ia, rilmFrame>>

\* random_instanton_monte_carlo_heating.py lines 20-36
RilmHeatingEntry ==
    /\ driver = "rilm_heating" /\ pc = "entry"
    /\ output_dirs' = output_dirs \cup {RilmHeatingOutputPath}
    /\ LET s0 == ActionZero(ip.x_potential_minimum)
       IN  n_ia' = InstantonCount(ip.x_potential_minimum, s0, n_lattice, ip.dtau)
    /\ printed' = printed \cup {"n_ia"}
    /\ i_mc' = 0
    /\ pc' = "loop"
    /\ UNCHANGED <<driver, ret, files, tau_centers_ia, hist_writer, n_ia_passed, cor_samples,
                   rilmFrame>>

\* lines 37-53 with the instanton count drawn anew in every sweep
RilmHeatingSweepResampled ==
    /\ driver = "rilm_heating" /\ pc = "loop"
    /\ IF i_mc < n_mc_sweeps
       THEN /\ printed' = printed \cup {"sweep"}
            /\ n_ia' = n_ia + 1
            /\ n_ia_passed' = Append(n_ia_passed, n_ia')
            /\ cor_samples' = cor_samples + n_meas
            /\ i_mc' = i_mc + 1
            /\ UNCHANGED <<ret, pc, files>>
       ELSE /\ files' = files \cup {<<RilmHeatingOutputPath, n_mc_sweeps * n_meas>>}
            /\ ret' = "None"
            /\ pc' = "done"
            /\ UNCHANGED <<printed, n_ia, n_ia_passed, cor_samples, i_mc>>
    /\ UNCHANGED <<driver, output_dirs, tau_centers_ia, hist_writer, rilmFrame>>

\* random_instanton_monte_carlo_heating.py lines 37-53
RilmHeatingSweep ==
    /\ driver = "rilm_heating" /\ pc = "loop"
    /\ IF i_mc < n_mc_sweeps
       THEN /\ printed' = printed \cup {"sweep"}
            /\ n_ia_passed' = Append(n_ia_passed, n_ia)
            /\ cor_samples' = cor_samples + n_meas
            /\ i_mc' = i_mc + 1
            /\ UNCHANGED <<ret, pc, files>>
       ELSE /\ files' = files \cup {<<RilmHeatingOutputPath, n_mc_sweeps * n_meas>>}
            /\ ret' = "None"
            /\ pc' = "done"
            /\ UNCHANGED <<printed, n_ia_passed, cor_samples, i_mc>>
    /\ UNCHANGED <<driver, output_dirs, tau_centers_ia, n_ia, hist_writer, rilmFrame>>

NextRilm ==
    \/ RilmEntry
    \/ RilmSweep
    \/ RilmHeatingEntry
    \/ RilmHeatingSweep

SpecRilm == InitRilm /\ [][NextRilm]_vars

(***************************************************************************)
(* anharmonic_oscillator_diag: the removal of the negative eigenvalues     *)
(* (anh_osc_diag.py lines 326-350).  Eigenvalues are integers in units of  *)
(* 1e-5, so the threshold of line 339 is 1.                                *)
(***************************************************************************)
MaxDim == 1
MinEigen == 2
MaxEigen == 3

HamiltonianPad == 4
EigenThreshold == 1

DiagOutputPath == "output_diag"

EigenValues == (0 - MinEigen)..MaxEigen

\* LA.eigh returns the eigenvalues in ascending order
EighResults(n) ==
    {e \in [1..n -> EigenValues] : \A i \in 1..(n - 1) : e[i] <= e[i + 1]}

\* line 335
Removed(e) == e < 0

\* line 339
PastThreshold(e) == e > EigenThreshold

\* np.delete(energy_eigenvalues, indices_removed); the indices are Python positions
RECURSIVE Delete(_, _)
Delete(values, removed) ==
    IF values = <<>> THEN <<>>
    ELSE LET last == Len(values)
             rest == Delete(SubSeq(values, 1, last - 1), removed)
         IN  IF \E k \in 1..Len(removed) : removed[k] = last - 1
             THEN rest
             ELSE Append(rest, values[last])

InitDiag ==
    /\ driver = "diag"
    /\ pc = "entry"
    /\ CommonInit
    /\ CooledIdle
    /\ CooledLocalsInit
    /\ tau_centers_ia = <<>>
    /\ StreamIdle
    /\ RilmIdle
    /\ MenuIdle
    /\ n_dim \in 0..MaxDim
    /\ n_hamiltonian = 0 /\ energy_eigenvalues = <<>> /\ i_removal = 0
    /\ indices_removed = <<>> /\ removed_file = <<>> /\ eigh_result = <<>>

diagFrame ==
    <<driver, ip, files, printed, ip_writes, cooledVars, tau_centers_ia, streamOnly, rilmOnly,
      menuOnly, n_dim>>

\* lines 266-333: the Hamiltonian, its eigenvalues, the start of the removal
DiagEntry ==
    /\ driver = "diag" /\ pc = "entry"
    /\ output_dirs' = output_dirs \cup {DiagOutputPath}
    /\ n_hamiltonian' = n_dim + HamiltonianPad
    /\ energy_eigenvalues' \in EighResults(n_hamiltonian')
    /\ eigh_result' = energy_eigenvalues'
    /\ i_removal' = 0
    /\ indices_removed' = <<>>
    /\ pc' = "removal"
    /\ UNCHANGED <<ret, removed_file, diagFrame>>

\* lines 334-340: one pass of the while loop
DiagRemoval ==
    /\ driver = "diag" /\ pc = "removal"
    /\ IF i_removal < n_hamiltonian
       THEN IF Removed(energy_eigenvalues[i_removal + 1])
            THEN /\ indices_removed' = Append(indices_removed, i_removal)
                 /\ i_removal' = i_removal + 1
                 /\ UNCHANGED pc
            ELSE IF PastThreshold(energy_eigenvalues[i_removal + 1])
                 THEN /\ pc' = "write"
                      /\ UNCHANGED <<indices_removed, i_removal>>
                 ELSE UNCHANGED <<pc, indices_removed, i_removal>>
       ELSE /\ pc' = "write"
            /\ UNCHANGED <<indices_removed, i_removal>>
    /\ UNCHANGED <<ret, output_dirs, n_hamiltonian, energy_eigenvalues, eigh_result,
                   removed_file, diagFrame>>

\* lines 342-350: the removed values are written, then deleted
DiagWrite ==
    /\ driver = "diag" /\ pc = "write"
    /\ removed_file' = SubSeq(energy_eigenvalues, 1, i_removal)
    /\ energy_eigenvalues' = Delete(energy_eigenvalues, indices_removed)
    /\ pc' = "removed"
    /\ UNCHANGED <<ret, output_dirs, n_hamiltonian, eigh_result, i_removal, indices_removed,
                   diagFrame>>

NextDiag ==
    \/ DiagEntry
    \/ DiagRemoval
    \/ DiagWrite

\* the interpreter keeps running the function it is in
SpecDiag == InitDiag /\ [][NextDiag]_vars /\ WF_vars(NextDiag)

(***************************************************************************)
(* main: the menu loop and its driver calls (main.py lines 15-145).        *)
(* An argument or a parameter is described by its kind.                    *)
(***************************************************************************)
MaxInputs == 3

DriverChoices == {"0", "1", "2", "3", "4", "5", "6", "7", "8", "9", "10"}

MainChoices == DriverChoices \cup {"11", "exit", "unrecognised"}

PlotRoutineChoices == {"a", "b", "c", "d", "e", "f", "g", "h", "i", "j", "k", "l", "m", "n", "o"}

PlotChoices == PlotRoutineChoices \cup {"exit", "unrecognised"}

\* the choices whose driver is a file of src/
SourceChoices == {"0", "4", "6", "7", "8"}

\* lines 23-100: the routine each branch calls
Routine(c) ==
    CASE c = "0"  -> "anharmonic_oscillator_diag"
      [] c = "1"  -> "monte_carlo_ao"
      [] c = "2"  -> "free_energy_anharm"
      [] c = "3"  -> "cooled_monte_carlo"
      [] c = "4"  -> "cooled_monte_carlo_density"
      [] c = "5"  -> "instantons_density_switching"
      [] c = "6"  -> "random_instanton_liquid_model"
      [] c = "7"  -> "random_instanton_liquid_model_heating"
      [] c = "8"  -> "streamline_method_iilm"
      [] c = "9"  -> "inst_int_liquid_model"
      [] OTHER    -> "zero_crossing_cooling_density"

\* lines 23-100: the positional arguments of each call, by kind
MainArgs(c) ==
    CASE c = "0"  -> <<"float", "int", "float">>
      [] c = "1"  -> <<"int", "int", "int", "int", "int", "bool">>
      [] c = "2"  -> <<"int", "float", "int", "int", "int", "bool">>
      [] c = "3"  -> <<"int", "int", "int", "int", "int", "bool", "int", "int">>
      [] c = "4"  -> <<"int", "int", "int", "bool", "int", "int", "int", "float">>
      [] c = "5"  -> <<"int", "int", "int", "int", "int", "float">>
      [] c = "6"  -> <<"int", "int", "int", "int", "int">>
      [] c = "7"  -> <<"int", "int", "int", "int", "int">>
      [] c = "8"  -> <<"float", "float", "int", "int", "int">>
      [] c = "9"  -> <<"int", "int", "int", "int", "float", "float", "float">>
      [] OTHER    -> <<"int", "int", "int", "bool", "int", "int">>

\* the parameters of the drivers of src/, by kind, and how many have no default;
\* a driver outside src/ is taken to declare what main passes
Params(c) ==
    CASE c = "0"  -> <<"int", "float", "float">>
      [] c = "4"  -> <<"int", "int", "int", "bool", "int", "int", "int">>
      [] c = "6"  -> <<"int", "int", "int", "int">>
      [] c = "7"  -> <<"int", "int", "int", "int", "int">>
      [] c = "8"  -> <<"float", "float", "int", "int">>
      [] OTHER    -> MainArgs(c)

Required(c) == IF c = "0" THEN 1 ELSE Len(Params(c))

\* an int may stand where a float is declared, nothing else is converted
KindFits(arg, param) == arg = param \/ (arg = "int" /\ param = "float")

ArityFits(c) == Required(c) <= Len(MainArgs(c)) /\ Len(MainArgs(c)) <= Len(Params(c))

OrderFits(c) ==
    \A k \in 1..Len(MainArgs(c)) : k <= Len(Params(c)) => KindFits(MainArgs(c)[k], Params(c)[k])

\* what the call of a driver choice ends in
CallOutcome(c) == IF ArityFits(c) /\ OrderFits(c) THEN "returned" ELSE "TypeError"

InitMenu ==
    /\ driver = "main"
    /\ pc = "main_menu"
    /\ CommonInit
    /\ CooledIdle
    /\ CooledLocalsInit
    /\ tau_centers_ia = <<>>
    /\ StreamIdle
    /\ RilmIdle
    /\ DiagIdle
    /\ MenuIdle

menuFrame ==
    <<driver, ip, output_dirs, files, ip_writes, cooledVars, tau_centers_ia, streamOnly,
      rilmOnly, diagOnly>>

\* lines 19-100 and 142-145: one pass of the outer loop
MainInput ==
    /\ driver = "main" /\ pc = "main_menu" /\ n_inputs < MaxInputs
    /\ \E c \in MainChoices :
          /\ call' = c
          /\ n_inputs' = n_inputs + 1
          /\ IF c \in DriverChoices
             THEN /\ invoked' = Append(invoked, Routine(c))
                  /\ IF CallOutcome(c) = "returned"
                     THEN UNCHANGED <<pc, ret>>
                     ELSE pc' = "raised" /\ ret' = CallOutcome(c)
                  /\ UNCHANGED <<stop_exec, stop_exec_plot, printed>>
             ELSE IF c = "11"
             THEN /\ stop_exec_plot' = 0
                  /\ pc' = "plot_menu"
                  /\ UNCHANGED <<stop_exec, invoked, printed, ret>>
             ELSE IF c = "exit"
             THEN /\ stop_exec' = 1
                  /\ pc' = "ended"
                  /\ UNCHANGED <<stop_exec_plot, invoked, printed, ret>>
             ELSE /\ printed' = printed \cup {"invalid command, try again"}
                  /\ UNCHANGED <<pc, ret, stop_exec, stop_exec_plot, invoked>>
    /\ UNCHANGED menuFrame

\* lines 104-141: one pass of the plot sub-menu loop
PlotInput ==
    /\ driver = "main" /\ pc = "plot_menu" /\ n_inputs < MaxInputs
    /\ \E c \in PlotChoices :
          /\ call' = c
          /\ n_inputs' = n_inputs + 1
          /\ IF c \in PlotRoutineChoices
             THEN /\ invoked' = Append(invoked, "graph_print")
                  /\ UNCHANGED <<pc, stop_exec_plot, printed>>
             ELSE IF c = "exit"
             THEN /\ stop_exec_plot' = 1
                  /\ pc' = "main_menu"
                  /\ UNCHANGED <<invoked, printed>>
             ELSE /\ printed' = printed \cup {"invalid command, try again"}
                  /\ UNCHANGED <<pc, stop_exec_plot, invoked>>
    /\ UNCHANGED <<ret, stop_exec, menuFrame>>

NextMenu ==
    \/ MainInput
    \/ PlotInput

SpecMenu == InitMenu /\ [][NextMenu]_vars

(***************************************************************************)
(* Any one driver run.                                                     *)
(***************************************************************************)
Init == InitCooled \/ InitStream \/ InitRilm \/ InitDiag \/ InitMenu

Next == NextCooled \/ NextStream \/ NextRilm \/ NextDiag \/ NextMenu

Spec == Init /\ [][Next]_vars

(***************************************************************************)
(* Properties.                                                             *)
(***************************************************************************)

\* lines 131-132 applied to the present array
DetectorNow ==
    FindInstantons(SubSeq(x_config, 3, Len(x_config) - 2), Len(x_config) - 4, ip.dtau)

StreamIterates == driver = "stream" /\ pc = "loop" /\ i_s' = i_s + 1

OddDiagnostic == "odd zero-crossing total"

\* C1: called with n_mc_sweeps < n_equil, cooled_monte_carlo_density returns 1
\* and does nothing else: no output directory, no write of
\* ip.x_potential_minimum, no lattice, no Metropolis or cooling sweep, no file.
C1_TooFewSweepsReturnsFirst ==
    (driver = "cooled" /\ n_mc_sweeps < n_equil) =>
        /\ pc \in {"entry", "done"}
        /\ (pc = "done" => ret = "1")
        /\ output_dirs = {}
        /\ ip_writes = 0 /\ ip = IpInitial
        /\ n_initialize = 0 /\ x_config = <<>>
        /\ n_metropolis = 0 /\ n_cool_calls = 0
        /\ files = {} /\ agg_calls = <<>>

C1_Witness == driver = "cooled" /\ n_mc_sweeps < n_equil /\ pc = "done" /\ ret = "1"

\* C2: parameters that give no cooling event (n_mc_sweeps = n_equil) are
\* rejected before any lattice is built or Metropolis sweep run, and
\* mc.stat_av_var is never handed n_cooling = 0.
C2_ZeroSamplesRejected ==
    driver = "cooled" =>
        /\ (n_mc_sweeps = n_equil => n_initialize = 0 /\ n_metropolis = 0)
        /\ \A k \in 1..Len(agg_calls) : agg_calls[k] # 0

\* C3: a streamline step whose roots are not one of each sign writes to
\* neither file and does not end the run; the loop runs all n_streamline
\* iterations and the two files hold equally many records.
C3_DegenerateStepSkipped ==
    /\ [](driver = "stream" =>
            /\ pc # "raised"
            /\ (pc = "done" => i_s = n_streamline)
            /\ Len(tau_writer.lines) = Len(act_writer.lines))
    /\ [][(driver = "stream" /\ pc = "loop" /\ i_s < n_streamline
              /\ ~ExactlyOneEach(DetectorNow')) =>
              (tau_writer' = tau_writer /\ act_writer' = act_writer /\ pc' = "loop"
               /\ i_s' = i_s + 1)]_vars

C3_Witness ==
    /\ driver = "stream" /\ pc = "done" /\ i_s = n_streamline
    /\ n_streamline > BurnIn + RecordStride
    /\ ~ExactlyOneEach(DetectorNow)
    /\ pair_steps = 0
    /\ tau_writer.lines = <<>> /\ act_writer.lines = <<>>

\* C4 as stated: every iteration past the burn-in count that finds one root of
\* each sign writes one record.
C4_RecordEveryStepPastBurnIn ==
    [][(StreamIterates /\ i_s > BurnIn /\ ExactlyOneEach(DetectorNow')) =>
          /\ Len(tau_writer'.lines) = Len(tau_writer.lines) + 1
          /\ Len(act_writer'.lines) = Len(act_writer.lines) + 1]_vars

\* C4 amended: an iteration appends one record to each file, the separation
\* of that iteration's roots to the separation file, exactly when i_s > 60000,
\* i_s is a multiple of 20 and one root of each sign is found; any other
\* iteration leaves both files as they are.
C4_RecordEveryStridePastBurnIn ==
    [][StreamIterates =>
          IF i_s > BurnIn /\ i_s % RecordStride = 0 /\ ExactlyOneEach(DetectorNow')
          THEN /\ tau_writer'.lines = Append(tau_writer.lines, Separation(DetectorNow'))
               /\ Len(act_writer'.lines) = Len(act_writer.lines) + 1
          ELSE /\ tau_writer' = tau_writer
               /\ act_writer' = act_writer]_vars

C4_Witness ==
    /\ driver = "stream" /\ i_s = BurnIn + RecordStride + 1
    /\ Len(tau_writer.lines) = 1 /\ Len(act_writer.lines) = 1
    /\ ExactlyOneEach(DetectorNow)

\* C5: a finished run of 1000 iterations in which every step found one root of
\* each sign has recorded at least one (separation, interaction) sample.
C5_ScenarioRunRecords ==
    (driver = "stream" /\ pc = "done" /\ n_streamline = ScenarioIterations
        /\ pair_steps = n_streamline) =>
        (Len(tau_writer.lines) >= 1 /\ Len(act_writer.lines) >= 1)

C7_InstantonCountFixed ==
    /\ []((driver \in {"rilm", "rilm_heating"} /\ pc # "entry") =>
            /\ \A k \in 1..Len(n_ia_passed) : n_ia_passed[k] = n_ia
            /\ (pc = "done" => Len(n_ia_passed) = n_mc_sweeps))
    /\ [][(driver \in {"rilm", "rilm_heating"} /\ pc # "entry") => n_ia' = n_ia]_vars

C7_Witness ==
    /\ driver \in {"rilm", "rilm_heating"} /\ pc = "done"
    /\ Len(n_ia_passed) = MaxRilmSweeps /\ n_ia = 2

\* C8: an odd total of zero crossings found in a cooled configuration is
\* reported by a diagnostic, not silently added to the count accumulators.
C8_OddTotalSurfaced ==
    (driver = "cooled" /\ odd_total_added) => OddDiagnostic \in printed

\* C9: within one scan point of cooled_monte_carlo_density the configuration
\* object is written once, before the lattice is initialised, and by nothing
\* after that; the streamline and RILM drivers never write it.
C9_ConfigurationConstant ==
    /\ [](/\ (driver = "cooled" /\ pc = "init_lattice") =>
                (ip_writes = i_minimum + 1 /\ n_initialize = i_minimum)
          /\ (driver = "cooled" /\ pc \in {"equil", "mc", "cooling", "aggregate"}) =>
                (ip_writes = i_minimum + 1 /\ n_initialize = i_minimum + 1
                 /\ ip.x_potential_minimum = ScanBase + ScanStep * i_minimum)
          /\ (driver # "cooled" => ip_writes = 0))
    /\ [][(ip' # ip \/ ip_writes' # ip_writes) =>
              /\ driver = "cooled" /\ pc = "scan" /\ pc' = "init_lattice"
              /\ ip_writes' = ip_writes + 1
              /\ ip'.action_0 = ip.action_0 /\ ip'.dtau = ip.dtau]_vars

C9_Witness ==
    /\ driver = "cooled" /\ pc = "aggregate" /\ i_minimum = 1
    /\ ip_writes = 2 /\ ip.x_potential_minimum = ScanBase + ScanStep
    /\ n_metropolis >= 1 /\ n_cool_calls >= 1

\* C10: when a scan point is aggregated the four accumulators have
\* n_cooling_sweeps bins and every bin holds exactly n_cooling samples, the
\* sample count handed to mc.stat_av_var.
C10_BinsHoldNCoolingSamples ==
    /\ (driver = "cooled" /\ pc = "aggregate") =>
          /\ Len(n_total_instantons_sum) = n_cooling_sweeps
          /\ Len(n2_total_instantons_sum) = n_cooling_sweeps
          /\ Len(action_cooling) = n_cooling_sweeps
          /\ Len(action2_cooling) = n_cooling_sweeps
          /\ Len(bin_samples) = n_cooling_sweeps
          /\ \A b \in 1..n_cooling_sweeps : bin_samples[b] = n_cooling
    /\ (driver = "cooled" /\ pc = "scan" /\ i_minimum >= 1) =>
          /\ agg_calls[Len(agg_calls)] = n_cooling
          /\ \A b \in 1..n_cooling_sweeps : bin_samples[b] = n_cooling

C10_Witness ==
    /\ driver = "cooled" /\ pc = "aggregate"
    /\ n_cooling = 2 /\ n_cooling_sweeps = 2
    /\ bin_samples = <<2, 2>>

\* ceil(a / b) for b >= 1
CeilDiv(a, b) == (a + b - 1) \div b

InScanPoint == driver = "cooled" /\ pc \in {"equil", "mc", "cooling", "aggregate"}

\* C11: each scan point of cooled_monte_carlo_density is an independent run:
\* its lattice is freshly initialised and its sums and n_cooling start at
\* zero, its sums hold the samples of this scan point and of no other, and
\* the Aggregator has run once per accumulator pair for every finished scan
\* point and not yet for the current one, which it reaches only after all of
\* the scan point's sweeps.
C11_ScanPointsIndependent ==
    /\ InScanPoint =>
          /\ Len(agg_calls) = 2 * i_minimum
          /\ n_initialize = i_minimum + 1
          /\ \A b \in 1..n_cooling_sweeps :
                /\ n_total_instantons_sum[b] = scan_sums[b].total
                /\ n2_total_instantons_sum[b] = scan_sums[b].total2
                /\ action_cooling[b] = scan_sums[b].action
                /\ action2_cooling[b] = scan_sums[b].action2
    /\ (driver = "cooled" /\ pc = "equil" /\ i_equil = 0) =>
          /\ n_cooling = 0
          /\ x_config \in InitializeLattice(n_lattice, i_cold, ip.x_potential_minimum)
          /\ \A b \in 1..n_cooling_sweeps :
                /\ n_total_instantons_sum[b] = 0 /\ n2_total_instantons_sum[b] = 0
                /\ action_cooling[b] = 0 /\ action2_cooling[b] = 0
    /\ (driver = "cooled" /\ pc = "aggregate") =>
          (i_equil = n_equil /\ i_mc = n_mc_sweeps - n_equil /\ n_metropolis = n_mc_sweeps)
    /\ (driver = "cooled" /\ pc \in {"scan", "init_lattice"}) => Len(agg_calls) = 2 * i_minimum

C11_Witness ==
    /\ driver = "cooled" /\ pc = "aggregate" /\ i_minimum = 1
    /\ Len(agg_calls) = 2 /\ n_cooling = 2 /\ n_cooling_sweeps = 2
    /\ n_total_instantons_sum[1] = 4 /\ n_total_instantons_sum[2] = 4

\* C12: with n_mc_sweeps >= n_equil and n_sweeps_btw_cooling >= 1 the driver
\* never raises, and it returns 0 having done, for each of the n_minima scan
\* points, n_mc_sweeps Metropolis sweeps and
\* ceil((n_mc_sweeps - n_equil) / n_sweeps_btw_cooling) cooling events of
\* n_cooling_sweeps cooling sweeps each.
C12_SweepCounts ==
    (driver = "cooled" /\ n_mc_sweeps >= n_equil /\ n_sweeps_btw_cooling >= 1) =>
        /\ pc # "raised"
        /\ (pc = "done" => ret = "0" /\ i_minimum = n_minima)
        /\ (pc = "aggregate" =>
              /\ n_metropolis = n_mc_sweeps
              /\ n_cooling = CeilDiv(n_mc_sweeps - n_equil, n_sweeps_btw_cooling)
              /\ n_cool_calls = n_cooling * n_cooling_sweeps)

\* C16: a cooling event works on a copy of the chain: it starts from the
\* configuration the Metropolis sweep just left, and no cooling sweep, root
\* detection or action measurement changes x_config, so the next Metropolis
\* sweep starts from what the previous one left.
C16_CoolingOnCopy ==
    /\ [][(driver = "cooled" /\ pc = "cooling") => x_config' = x_config]_vars
    /\ [][(driver = "cooled" /\ pc = "mc" /\ pc' = "cooling") =>
              (x_cold_config' = x_config'
               /\ x_config' \in MetropolisOutcomes(x_config, ip.x_potential_minimum))]_vars

C16_Witness ==
    /\ driver = "cooled" /\ pc = "cooling" /\ i_cooling = n_cooling_sweeps
    /\ n_cooling = 2 /\ n_cooling_sweeps >= 1
    /\ x_cold_config # x_config

\* C17: the divisions action_av / n_total and action_err / n_total are never
\* made with n_total = 0 in some cooling-sweep bin.
C17_NoZeroDivisor ==
    driver = "cooled" => ~zero_divisor

\* C13: every record of the streamline solver is the pair
\* (|t_instanton - t_anti_instanton|, (A - 2 * S0) / S0): A the action of the
\* configuration after the step's update and re-clamping, the two times the
\* single roots of that same configuration, S0 = 4/3 * x_potential_minimum^3;
\* no recorded separation is negative.
C13_RecordContent ==
    /\ []((driver = "stream" /\ pc # "entry") =>
            /\ 3 * ansatz_action =
                  4 * 3 * ip.x_potential_minimum * ip.x_potential_minimum * ip.x_potential_minimum
            /\ \A k \in 1..Len(tau_writer.lines) : tau_writer.lines[k] >= 0)
    /\ [][(StreamIterates /\ Len(tau_writer'.lines) # Len(tau_writer.lines)) =>
              LET x  == x_config'
                  A  == ReturnAction(SubSeq(x, 3, Len(x) - 1), ip.x_potential_minimum)
                  S0 == ansatz_action'
                  t  == DetectorNow'
              IN  /\ Len(t.pos_roots) = 1 /\ Len(t.neg_roots) = 1
                  /\ tau_writer'.lines =
                        Append(tau_writer.lines,
                               IF t.pos_roots[1] >= t.neg_roots[1]
                               THEN t.pos_roots[1] - t.neg_roots[1]
                               ELSE t.neg_roots[1] - t.pos_roots[1])
                  /\ act_writer'.lines =
                        Append(act_writer.lines, Trunc(100 * (3 * A - 80 * S0), 40 * S0))]_vars

C13_Witness ==
    /\ driver = "stream" /\ pc = "done"
    /\ Len(tau_writer.lines) = 2 /\ Len(act_writer.lines) = 2
    /\ tau_writer.lines[1] > 0

\* C14: one streamline step is synchronous: the gradient of every interior
\* site is taken from the array as the previous step left it, every interior
\* site then moves by -gradient * stream_time_step, the ghost points are then
\* set to the nearest interior site, and the roots are those of the array so
\* obtained.
C14_SynchronousStep ==
    [][StreamIterates =>
          LET n    == 2 * n_lattice_half
              eta  == ip.x_potential_minimum
              grad == [k \in 1..n |->
                         -100 * (-x_config[k + 4] + 16 * x_config[k + 3] - 30 * x_config[k + 2]
                                 + 16 * x_config[k + 1] - x_config[k])
                         + 96 * x_config[k + 2] * (x_config[k + 2] * x_config[k + 2] - eta * eta)]
          IN  /\ lambda_derivative' = grad
              /\ \A k \in 1..n :
                    x_config'[k + 2] =
                       x_config[k + 2]
                       - Trunc(grad[k] * stream_time_step.num, LambdaDen * stream_time_step.den)
              /\ x_config'[1] = x_config'[3] /\ x_config'[2] = x_config'[3]
              /\ x_config'[n + 3] = x_config'[n + 2] /\ x_config'[n + 4] = x_config'[n + 2]
              /\ Len(x_config') = n + 4
              /\ pair_steps' = pair_steps + (IF ExactlyOneEach(DetectorNow') THEN 1 ELSE 0)]_vars

C14_Witness ==
    /\ driver = "stream" /\ pc = "loop" /\ i_s = 3
    /\ \E k \in 1..Len(lambda_derivative) : lambda_derivative[k] # 0
    /\ SubSeq(x_config, 3, Len(x_config) - 2) # ansatz_grid
    /\ pair_steps = 3

\* C20: random_instanton_liquid_model never reads outside the centre list in
\* the histogram loop, whatever n_ia it computed, and every sweep writes one
\* separation for each even-indexed centre.
C20_HistogramInsideList ==
    driver = "rilm" =>
        /\ pc # "raised"
        /\ (pc \in {"loop", "done"} => Len(hist_writer.lines) = i_mc * ((n_ia + 1) \div 2))

\* the number of leading negative entries of an ascending sequence
LeadingNegatives(e) == Cardinality({k \in 1..Len(e) : e[k] < 0})

\* C15: for every ascending eigenvalue sequence the removal loop ends, with
\* i_removal the number of leading negative eigenvalues and indices_removed
\* the positions 0 .. i_removal - 1.
C15_RemovalTerminates ==
    /\ <>(driver = "diag" /\ pc = "removed")
    /\ []((driver = "diag" /\ pc = "removed") =>
            /\ i_removal = LeadingNegatives(eigh_result)
            /\ indices_removed = [k \in 1..i_removal |-> k - 1])

\* C18: every driver call of main's dispatch passes arguments the driver's
\* signature accepts, in the declared order, so no menu choice fails at its
\* call.
C18_CallsFitSignatures ==
    driver = "main" =>
        /\ pc # "raised"
        /\ \A c \in SourceChoices : ArityFits(c) /\ OrderFits(c)

\* C19: the menu loop ends only on 'exit' typed at the main menu; any other
\* answer is followed by the main menu again (by the plot sub-menu after
\* '11'), an unrecognised command calls nothing, and 'exit' in the plot
\* sub-menu ends the sub-menu alone.
C19_MenuEndsOnlyOnExit ==
    /\ []((driver = "main" /\ pc \notin {"main_menu", "plot_menu"}) =>
            (pc = "ended" /\ call = "exit" /\ stop_exec = 1))
    /\ [][(driver = "main" /\ pc = "main_menu" /\ call' \notin {"exit", "11"}) =>
              pc' = "main_menu"]_vars
    /\ [][(driver = "main" /\ call' = "unrecognised") =>
              (invoked' = invoked /\ pc' = pc)]_vars
    /\ [][(driver = "main" /\ pc = "plot_menu") =>
              (stop_exec' = 0
               /\ pc' = (IF call' = "exit" THEN "main_menu" ELSE "plot_menu"))]_vars

\* C21: whenever a RILM driver has read the configuration object, the action
\* it holds is 4/3 of the cube of the potential minimum it holds, so the
\* instanton count of either driver is the one computed from the current
\* potential minimum, also after cooled_monte_carlo_density has left the
\* potential minimum at its last scan value.
C21_ActionFollowsMinimum ==
    (driver \in {"rilm", "rilm_heating"} /\ pc # "entry") =>
        /\ ip.action_0 = ActionZero(ip.x_potential_minimum)
        /\ n_ia = InstantonCount(ip.x_potential_minimum, ActionZero(ip.x_potential_minimum),
                                 n_lattice, ip.dtau)

====
